---------------------------- MODULE Spec2Model ----------------------------
(***************************************************************************)
(* A model of the two notebooks of the repository.                         *)
(*                                                                         *)
(*   - the cyclotomic notebook: plot_funct(n), findUnityRoot(n, k) and     *)
(*     connectpoints(x, y, p1, p2), driven by an IntSlider;                *)
(*   - the Michaelis-Menten notebook: the cell of module-level constants,  *)
(*     the markdown cell that renders the validity ratio, and the slider   *)
(*     callback plot_func(K_M, K_cat, S_0, E_0, t_f).                      *)
(*                                                                         *)
(* Three specifications share the variables: SpecRoots (the cyclotomic     *)
(* notebook), SpecDerive (the constants cell and the markdown cell, in     *)
(* exact rational arithmetic) and SpecMM (the kinetics callback, in        *)
(* fixed-point arithmetic whose unit is the time step dt = 0.01).          *)
(***************************************************************************)
EXTENDS Integers, Sequences, FiniteSets

VARIABLES
    \* ---- cyclotomic notebook: the frame of plot_funct ----
    pc,        \* position in plot_funct: idle, solve, loop, plot, edges, done, raised
    n,         \* the argument of plot_funct
    k,         \* the loop variable of "for k in range(n)"
    p,         \* the loop variable of "for p in range(len(real) - 1)"
    real,      \* the list real
    imag,      \* the list imag
    segs,      \* the segments drawn by connectpoints, in drawing order
    labels,    \* the indices of the zeta labels written by plt.text, in order
    roots,     \* the value returned to the caller, if plot_funct has returned
    err,       \* the exception that left plot_funct ("none" while there is none)
    \* ---- Michaelis-Menten notebook: the kernel's module namespace ----
    lit,       \* the literals written in the constants cell
    g,         \* the values of the module-level names (exact rationals)
    bound,     \* the module-level names that are bound
    cellErr,   \* the exception that ended the constants cell ("none" if none)
    md,        \* the rendered variables of the markdown cell (rendered is FALSE before it runs)
    \* ---- Michaelis-Menten notebook: the frame of plot_func ----
    kpc,       \* position in plot_func: idle, plotP, plotS, plotE, plotES, plotV, done, raised
    via,       \* who called: "slider" (interact) or "direct"
    earlier,   \* whether another call came before this one
    args,      \* the arguments K_M, K_cat, S_0, E_0, t_f, in hundredths
    v_max,     \* the local v_max, in hundredths
    T,         \* the time grid np.arange(t_0, t_f, dt), in hundredths
    series,    \* the values the lambdas P, S, E, ES, v returned, per plotted line
    plotted,   \* the y-data handed to plt.plot, per plotted line
    kerr       \* the exception that left plot_func ("none" while there is none)

rootsVars == <<pc, n, k, p, real, imag, segs, labels, roots, err>>

deriveVars == <<lit, g, bound, cellErr, md>>

frameVars == <<kpc, via, earlier, args, v_max, T, series, plotted, kerr>>

vars == <<rootsVars, deriveVars, frameVars>>

-----------------------------------------------------------------------------
(* Bounds of the model. *)

\* plot_funct is explored for n up to MaxN (the slider itself stops at 17).
MaxN == 9

\* Direct calls of plot_funct are explored for n down to -MaxNeg.
MaxNeg == 3

-----------------------------------------------------------------------------
(* Python helpers. *)

Min(a, b) == IF a <= b THEN a ELSE b

Abs(a) == IF a < 0 THEN -a ELSE a

RECURSIVE GCD(_, _)
GCD(a, b) == IF b = 0 THEN a ELSE GCD(b, a % b)

\* A faulty variant of PyRange: a negative bound taken by its magnitude.
PyRangeAbs(m) == 0 .. (Abs(m) - 1)

\* range(m): the values 0, 1, ..., m-1; empty when m <= 0.
PyRange(m) == 0 .. (m - 1)

\* Whether lst[i] raises IndexError.  Python accepts -len <= i < len.
PyIndexRaises(lst, i) == ~(-Len(lst) <= i /\ i < Len(lst))

\* lst[i] for an index Python accepts (negative indices count from the end).
PyIndex(lst, i) == IF i >= 0 THEN lst[i + 1] ELSE lst[Len(lst) + i + 1]

-----------------------------------------------------------------------------
(* The cyclotomic notebook. *)

\* The slider of interact: IntSlider(min=1, max=17, step=1, value=5).
SliderMinN == 1
SliderMaxN == 17

\* The angle 2*pi*k/n as a fraction of a full turn, in lowest terms.
Turn(kk, nn) ==
    LET d == GCD(Abs(kk), Abs(nn))
        s == IF nn < 0 THEN -1 ELSE 1
    IN  [num |-> (s * kk) \div d, den |-> (s * nn) \div d]

\* A faulty variant of findUnityRoot: the angle of the next root.
findUnityRootShifted(nn, kk) ==
    <<[f |-> "cos", turn |-> Turn(kk + 1, nn)], [f |-> "sin", turn |-> Turn(kk + 1, nn)]>>

\* findUnityRoot(n, k) = [cos(2*pi*k/n), sin(2*pi*k/n)].
findUnityRoot(nn, kk) ==
    <<[f |-> "cos", turn |-> Turn(kk, nn)], [f |-> "sin", turn |-> Turn(kk, nn)]>>

\* connectpoints reads x[p1], x[p2], y[p1], y[p2]; any of them may raise.
connectpointsRaises(x, y, p1, p2) ==
    \/ PyIndexRaises(x, p1) \/ PyIndexRaises(x, p2)
    \/ PyIndexRaises(y, p1) \/ PyIndexRaises(y, p2)

\* The segment connectpoints(x, y, p1, p2) hands to plt.plot.
connectpoints(x, y, p1, p2) ==
    [p1 |-> p1, p2 |-> p2,
     xs |-> <<PyIndex(x, p1), PyIndex(x, p2)>>,
     ys |-> <<PyIndex(y, p1), PyIndex(y, p2)>>]

\* A faulty variant of ClosingEdge: the closing segment drawn to point n instead of n-1.
ClosingEdgeOffByOne(nn) == <<0, nn>>

\* The closing segment of line 74: connectpoints(real, imag, 0, n - 1).
ClosingEdge(nn) == <<0, nn - 1>>

\* sp.solve(x**n - 1, x): the symbolic solution set, kept abstract.
SolveUnity(nn) == [returned |-> TRUE, solve |-> "x**n - 1", n |-> nn]

\* Nothing has been returned.
NoRoots == [returned |-> FALSE, solve |-> "", n |-> 0]

InitRootsFrame ==
    /\ pc = "idle"
    /\ n = 0
    /\ k = 0
    /\ p = 0
    /\ real = <<>>
    /\ imag = <<>>
    /\ segs = <<>>
    /\ labels = <<>>
    /\ roots = NoRoots
    /\ err = "none"

\* A call enters plot_funct with a fresh frame.
Enter(nn) ==
    /\ pc \in {"idle", "done", "raised"}
    /\ pc' = "solve"
    /\ n' = nn
    /\ k' = 0
    /\ p' = 0
    /\ real' = <<>>
    /\ imag' = <<>>
    /\ segs' = <<>>
    /\ labels' = <<>>
    /\ roots' = NoRoots
    /\ err' = "none"
    /\ UNCHANGED <<deriveVars, frameVars>>

\* interact(plot_funct, n=IntSlider(min=1, max=17, ...)): a slider event.
SliderEvent == \E nn \in SliderMinN .. Min(SliderMaxN, MaxN) : Enter(nn)

\* plot_funct called directly, outside the slider's range.
DirectCall == \E nn \in (-MaxNeg) .. 0 : Enter(nn)

\* Lines 55-58: the symbolic solve, then real, imag = [], [].
Solve ==
    /\ pc = "solve"
    /\ pc' = "loop"
    /\ UNCHANGED <<n, k, p, real, imag, segs, labels, roots, err>>
    /\ UNCHANGED <<deriveVars, frameVars>>

\* Lines 59-62: one iteration of "for k in range(n)", or the loop's exit.
LoopStep ==
    /\ pc = "loop"
    /\ IF k \in PyRange(n)
       THEN /\ real' = Append(real, findUnityRoot(n, k)[1])
            /\ imag' = Append(imag, findUnityRoot(n, k)[2])
            /\ k' = k + 1
            /\ pc' = "loop"
       ELSE /\ pc' = "plot"
            /\ UNCHANGED <<real, imag, k>>
    /\ UNCHANGED <<n, p, segs, labels, roots, err>>
    /\ UNCHANGED <<deriveVars, frameVars>>

\* Lines 65-75: the figure, the scatter, the closing segment and the label of
\* point 0.  An IndexError leaves plot_funct.
PlotClosing ==
    /\ pc = "plot"
    /\ LET e == ClosingEdge(n)
       IN  IF connectpointsRaises(real, imag, e[1], e[2]) \/ PyIndexRaises(real, 0)
           THEN /\ pc' = "raised"
                /\ err' = "IndexError"
                /\ UNCHANGED <<segs, labels, p>>
           ELSE /\ segs' = Append(segs, connectpoints(real, imag, e[1], e[2]))
                /\ labels' = Append(labels, 0)
                /\ p' = 0
                /\ pc' = "edges"
                /\ UNCHANGED err
    /\ UNCHANGED <<n, k, real, imag, roots>>
    /\ UNCHANGED <<deriveVars, frameVars>>

\* Lines 76-78: one iteration of "for p in range(len(real) - 1)", or lines
\* 79-82: the titles and "return roots".
EdgeStep ==
    /\ pc = "edges"
    /\ IF p \in PyRange(Len(real) - 1)
       THEN IF connectpointsRaises(real, imag, p, p + 1)
            THEN /\ pc' = "raised"
                 /\ err' = "IndexError"
                 /\ UNCHANGED <<segs, labels, p, roots>>
            ELSE /\ segs' = Append(segs, connectpoints(real, imag, p, p + 1))
                 /\ labels' = Append(labels, p + 1)
                 /\ p' = p + 1
                 /\ pc' = "edges"
                 /\ UNCHANGED <<err, roots>>
       ELSE /\ roots' = SolveUnity(n)
            /\ pc' = "done"
            /\ UNCHANGED <<segs, labels, p, err>>
    /\ UNCHANGED <<n, k, real, imag>>
    /\ UNCHANGED <<deriveVars, frameVars>>

-----------------------------------------------------------------------------
(* Exact rational arithmetic, for the constants cell and the markdown cell. *)

\* The rational a/b in lowest terms with a positive denominator (b # 0).
Rat(a, b) ==
    LET d == GCD(Abs(a), Abs(b))
        s == IF b < 0 THEN -1 ELSE 1
    IN  [num |-> (s * a) \div d, den |-> (s * b) \div d]

RAdd(x, y) == Rat(x.num * y.den + y.num * x.den, x.den * y.den)

RMul(x, y) == Rat(x.num * y.num, x.den * y.den)

\* x / y for y # 0.
RDiv(x, y) == Rat(x.num * y.den, x.den * y.num)

RIsZero(x) == x.num = 0

\* Python's round(x, digits) for x >= 0, as the integer x * 10^digits rounded
\* half to even (scale = 10^digits).
PyRound(x, scale) ==
    LET m  == (x.num * scale) \div x.den
        r2 == 2 * (x.num * scale - m * x.den)
    IN  IF r2 > x.den \/ (r2 = x.den /\ m % 2 = 1) THEN m + 1 ELSE m

-----------------------------------------------------------------------------
(* The Michaelis-Menten notebook: the constants cell and the markdown cell. *)

\* The literals of lines 82-89 as shipped.
ShippedLiterals ==
    [S_0 |-> Rat(15, 1), E_0 |-> Rat(1, 2), K_cat |-> Rat(30, 1),
     k_1 |-> Rat(11, 2), k_minus_1 |-> Rat(1, 100),
     t_0 |-> Rat(0, 1), t_f |-> Rat(5, 1), dt |-> Rat(1, 100)]

\* The literals the constants cell is evaluated with: the shipped ones, and
\* edits of the five kinetic literals.
LiteralChoices ==
    { [ShippedLiterals EXCEPT !.S_0 = s, !.E_0 = e, !.K_cat = c,
                              !.k_1 = f, !.k_minus_1 = b] :
        s \in {Rat(15, 1), Rat(2, 1)},
        e \in {Rat(1, 2), Rat(1, 10), Rat(1, 1)},
        c \in {Rat(30, 1), Rat(5, 1)},
        f \in {Rat(11, 2), Rat(1, 1), Rat(0, 1)},
        b \in {Rat(1, 100), Rat(1, 2), Rat(0, 1)} }

\* Lines 85 and 93: v_max = K_cat * E_0.
MaximalVelocity(K_cat, E_0) == RMul(K_cat, E_0)

\* A faulty variant of MichaelisConstant: the parentheses of the numerator lost.
MichaelisConstantNoParens(k_minus_1, K_cat, k_1) == RAdd(k_minus_1, RDiv(K_cat, k_1))

\* Line 88: K_M = (k_minus_1 + K_cat) / k_1, for k_1 # 0.
MichaelisConstant(k_minus_1, K_cat, k_1) == RDiv(RAdd(k_minus_1, K_cat), k_1)

\* The module namespace of a fresh kernel: no name is bound.
Unbound ==
    [nm \in {"S_0", "E_0", "K_cat", "v_max", "k_1", "k_minus_1", "K_M", "t_0", "t_f", "dt"}
        |-> Rat(0, 1)]

\* The values of the names lines 82-87 bind.
NamesBeforeK_M(l) ==
    [Unbound EXCEPT
        !.S_0 = l.S_0, !.E_0 = l.E_0, !.K_cat = l.K_cat,
        !.v_max = MaximalVelocity(l.K_cat, l.E_0),
        !.k_1 = l.k_1, !.k_minus_1 = l.k_minus_1]

\* The values of the names lines 82-89 bind (k_1 # 0).
ModuleConstants(l) ==
    [NamesBeforeK_M(l) EXCEPT
        !.K_M = MichaelisConstant(l.k_minus_1, l.K_cat, l.k_1),
        !.t_0 = l.t_0, !.t_f = l.t_f, !.dt = l.dt]

\* The markdown cell before it is rendered.
Unrendered ==
    [rendered |-> FALSE, label |-> "", ratio |-> 0, ratioErr |-> "none",
     velocityErr |-> "none"]

\* The first template variable of the markdown cell, lines 131 and 138:
\* round(E_0/(K_M + E_0), 3), in thousandths.
MarkdownRatio(ns) == PyRound(RDiv(ns.E_0, RAdd(ns.K_M, ns.E_0)), 1000)

\* Lines 82-89: the constants cell.  Python raises ZeroDivisionError at line
\* 88 when k_1 is zero; the names bound before it stay bound.
RunConstantsCell ==
    /\ bound = {}
    /\ cellErr = "none"
    /\ IF RIsZero(lit.k_1)
       THEN /\ g' = NamesBeforeK_M(lit)
            /\ bound' = {"S_0", "E_0", "K_cat", "v_max", "k_1", "k_minus_1"}
            /\ cellErr' = "ZeroDivisionError"
       ELSE /\ g' = ModuleConstants(lit)
            /\ bound' = DOMAIN Unbound
            /\ cellErr' = "none"
    /\ UNCHANGED <<lit, md, rootsVars, frameVars>>

\* Lines 128-139: the markdown cell renders its two template variables from
\* the module namespace.  The second one reads v, a name no cell binds.
RenderMarkdown ==
    /\ bound # {}
    /\ ~md.rendered
    /\ LET ratioErr == IF ~({"E_0", "K_M"} \subseteq bound) THEN "NameError"
                       ELSE IF RIsZero(RAdd(g.K_M, g.E_0)) THEN "ZeroDivisionError"
                       ELSE "none"
       IN  md' = [rendered |-> TRUE,
                  label |-> "E_0/(K_M + S_0)",
                  ratio |-> IF ratioErr = "none" THEN MarkdownRatio(g) ELSE 0,
                  ratioErr |-> ratioErr,
                  velocityErr |-> IF "v" \in bound THEN "none" ELSE "NameError"]
    /\ UNCHANGED <<lit, g, bound, cellErr, rootsVars, frameVars>>

\* The cells are run again from a fresh kernel, with the same or edited literals.
RestartKernel ==
    /\ md.rendered
    /\ lit' \in LiteralChoices
    /\ g' = Unbound
    /\ bound' = {}
    /\ cellErr' = "none"
    /\ md' = Unrendered
    /\ UNCHANGED <<rootsVars, frameVars>>

\* No call of plot_func has been made.
InitFrame ==
    /\ kpc = "idle"
    /\ via = "none"
    /\ earlier = FALSE
    /\ args = [K_M |-> 0, K_cat |-> 0, S_0 |-> 0, E_0 |-> 0, t_f |-> 0]
    /\ v_max = 0
    /\ T = <<>>
    /\ series = [P |-> <<>>, S |-> <<>>, E |-> <<>>, ES |-> <<>>, v |-> <<>>]
    /\ plotted = series
    /\ kerr = "none"

InitDerive ==
    /\ InitRootsFrame
    /\ InitFrame
    /\ lit = ShippedLiterals
    /\ g = Unbound
    /\ bound = {}
    /\ cellErr = "none"
    /\ md = Unrendered

NextDerive ==
    \/ RunConstantsCell
    \/ RenderMarkdown
    \/ RestartKernel

SpecDerive == InitDerive /\ [][NextDerive]_vars

-----------------------------------------------------------------------------
(* Floating-point values, for the kinetics callback.  A finite number x is  *)
(* held in fixed point, as the integer floor(x * Unit); products and        *)
(* quotients round down.  The non-finite values of IEEE 754 (inf, -inf,     *)
(* nan) are kept, with numpy's rules for them.                              *)

\* The fixed-point unit: 1.0 is Unit hundredths, so that the time step
\* dt = 0.01 of line 89 is one unit.
Unit == 100

\* The fixed-point integer of an exact rational.
Fx(q) == (q.num * Unit) \div q.den

\* Integer fixed-point product and quotient (y # 0).
IMul(x, y) == (x * y) \div Unit

IDiv(x, y) == IF y < 0 THEN ((-x) * Unit) \div (-y) ELSE (x * Unit) \div y

\* The float of a fixed-point integer, the infinities and nan.
Fin(x) == [k |-> "fin", v |-> x]

Inf(sign) == [k |-> "inf", v |-> sign]

NaN == [k |-> "nan", v |-> 0]

Sign(x) == IF x.v > 0 THEN 1 ELSE IF x.v < 0 THEN -1 ELSE 0

\* -x.
NpNeg(x) == [x EXCEPT !.v = -x.v]

\* x + y.
NpAdd(x, y) ==
    IF x.k = "nan" \/ y.k = "nan" THEN NaN
    ELSE IF x.k = "inf" /\ y.k = "inf" THEN (IF x.v = y.v THEN x ELSE NaN)
    ELSE IF x.k = "inf" THEN x
    ELSE IF y.k = "inf" THEN y
    ELSE Fin(x.v + y.v)

\* x - y.
NpSub(x, y) == NpAdd(x, NpNeg(y))

\* x * y.
NpMul(x, y) ==
    IF x.k = "nan" \/ y.k = "nan" THEN NaN
    ELSE IF x.k = "inf" \/ y.k = "inf"
         THEN (IF Sign(x) * Sign(y) = 0 THEN NaN ELSE Inf(Sign(x) * Sign(y)))
    ELSE Fin(IMul(x.v, y.v))

\* x / y where an operand is a numpy float64: a zero divisor gives nan or inf
\* (with a RuntimeWarning) instead of raising.
NpDiv(x, y) ==
    IF x.k = "nan" \/ y.k = "nan" THEN NaN
    ELSE IF x.k = "inf" THEN (IF y.k = "inf" THEN NaN
                              ELSE Inf(IF Sign(y) < 0 THEN -x.v ELSE x.v))
    ELSE IF y.k = "inf" THEN Fin(0)
    ELSE IF y.v = 0 THEN (IF x.v = 0 THEN NaN ELSE Inf(Sign(x)))
    ELSE Fin(IDiv(x.v, y.v))

\* x == y and x <= y on floats: false whenever an operand is nan.
NpEq(x, y) == x.k # "nan" /\ y.k # "nan" /\ x = y

NpLe(x, y) ==
    /\ x.k # "nan" /\ y.k # "nan"
    /\ \/ x = y
       \/ x = Inf(-1)
       \/ y = Inf(1)
       \/ x.k = "fin" /\ y.k = "fin" /\ x.v <= y.v

\* The Taylor series of exp(x) for x >= 0, from the term of index j on.
RECURSIVE ExpSeries(_, _, _)
ExpSeries(x, term, j) ==
    IF term = 0 THEN 0 ELSE term + ExpSeries(x, (term * x) \div (j * Unit), j + 1)

\* exp(-x) is below one unit for x beyond this.
ExpUnderflow == 6 * Unit

\* np.exp overflows a float64 to inf beyond 709.78.
ExpOverflow == 70978

\* exp(x) in fixed point, for x below the overflow threshold.
IExp(x) ==
    IF x >= 0 THEN ExpSeries(x, Unit, 1)
    ELSE IF -x > ExpUnderflow THEN 0
    ELSE (Unit * Unit) \div ExpSeries(-x, Unit, 1)

\* np.exp(x).
NpExp(x) ==
    IF x.k = "nan" THEN NaN
    ELSE IF x.k = "inf" THEN (IF x.v > 0 THEN x ELSE Fin(0))
    ELSE IF x.v > ExpOverflow THEN Inf(1)
    ELSE Fin(IExp(x.v))

\* u * exp(u), the function Lambert's W inverts.
WExp(u) == IMul(u, IExp(u))

\* The search for W stops here: WExp(WCeiling) exceeds every finite argument met.
WCeiling == 9 * Unit

\* The largest u in lo .. hi-1 with WExp(u) <= z, given WExp(lo) <= z < WExp(hi).
RECURSIVE WSearch(_, _, _)
WSearch(z, lo, hi) ==
    IF hi - lo <= 1 THEN lo
    ELSE LET mid == (lo + hi) \div 2
         IN  IF WExp(mid) <= z THEN WSearch(z, mid, hi) ELSE WSearch(z, lo, mid)

\* Lines 78-79: W(z) = np.real(lambertw(z, k=0)): the inverse of u * exp(u)
\* on z >= 0; lambertw returns its argument for inf and nan.
W(z) == IF z.k = "fin" THEN Fin(WSearch(z.v, 0, WCeiling)) ELSE z

-----------------------------------------------------------------------------
(* The Michaelis-Menten notebook: the slider callback plot_func.  K_M, S_0, *)
(* E_0 and vm (the local v_max) are Python floats, as fixed-point integers; *)
(* t is a sample of the grid; the lambdas return numpy floats.              *)

\* A faulty variant of SLambda: the sign of the consumed substrate flipped.
SLambdaGrowing(K_M, S_0, vm, t) ==
    NpMul(Fin(K_M),
          W(NpMul(Fin(IDiv(S_0, K_M)),
                  NpExp(NpMul(Fin(IDiv(Unit, K_M)), Fin(IMul(vm, t) + S_0))))))

\* Line 94: S = lambda t : K_M * W(S_0 / K_M * np.exp(1 / K_M * (-v_max * t + S_0))),
\* for K_M # 0.
SLambda(K_M, S_0, vm, t) ==
    NpMul(Fin(K_M),
          W(NpMul(Fin(IDiv(S_0, K_M)),
                  NpExp(NpMul(Fin(IDiv(Unit, K_M)), Fin(IMul(-vm, t) + S_0))))))

\* Line 95: ES = lambda t, S : (E_0 * S(t)) / (K_M + S(t)) * (1 - np.exp(-(K_M + S(t)) * k_1 * t)).
ESLambda(K_M, S_0, E_0, vm, k_1, t) ==
    LET St == SLambda(K_M, S_0, vm, t)
        KS == NpAdd(Fin(K_M), St)
    IN  NpMul(NpDiv(NpMul(Fin(E_0), St), KS),
              NpSub(Fin(Unit), NpExp(NpMul(NpMul(NpNeg(KS), Fin(k_1)), Fin(t)))))

\* Line 96: E = lambda t, ES : E_0 - ES(t, S).
ELambda(K_M, S_0, E_0, vm, k_1, t) ==
    NpSub(Fin(E_0), ESLambda(K_M, S_0, E_0, vm, k_1, t))

\* Line 97: P = lambda t, S, ES : S_0 - S(t) - ES(t, S).
PLambda(K_M, S_0, E_0, vm, k_1, t) ==
    NpSub(NpSub(Fin(S_0), SLambda(K_M, S_0, vm, t)), ESLambda(K_M, S_0, E_0, vm, k_1, t))

\* Line 98: v = lambda t, S : (v_max * S(t)) / (K_M + S(t)).
vLambda(K_M, S_0, vm, t) ==
    LET St == SLambda(K_M, S_0, vm, t)
    IN  NpDiv(NpMul(Fin(vm), St), NpAdd(Fin(K_M), St))

\* Line 99: np.arange(t_0, t_f, dt) for dt > 0: ceil((t_f - t_0) / dt) samples.
Arange(t_0, t_f, dt) ==
    LET cnt == IF t_f > t_0 THEN (t_f - t_0 + dt - 1) \div dt ELSE 0
    IN  [i \in 1 .. cnt |-> t_0 + (i - 1) * dt]

\* S_0 / K_M and 1 / K_M divide Python floats: ZeroDivisionError for K_M = 0.
SRaises(K_M) == K_M = 0

\* 10/E_0 divides Python numbers: ZeroDivisionError for E_0 = 0.
ScaleRaises(E_0) == E_0 = 0

\* A faulty variant of GlobalsAfterCall: the call leaves its t_f behind as the
\* module-level t_0.
GlobalsAfterCallLeaking(ns, ar) == [ns EXCEPT !.t_0 = Rat(ar.t_f, Unit)]

\* The module namespace after a call with arguments ar: plot_func assigns
\* only locals (lines 91-99 hold no global statement).
GlobalsAfterCall(ns, ar) == ns

\* The S_0 slider is explored up to MaxS0 (its true maximum is 50).
MaxS0 == 2

\* A faulty variant of KMSliderValues: the slider starting at zero.
KMSliderValuesFromZero == {0, Unit \div 2, Unit, 2 * Unit}

\* Line 118: K_M = FloatSlider(min=0.1, max=50, step=0.1); the values explored.
KMSliderValues == {Unit \div 2, Unit, 2 * Unit}

\* Line 119: K_cat = FloatSlider(min=0, max=50, step=1); the values explored.
KcatSliderValues == {0, Unit}

\* Line 120: S_0 = FloatSlider(min=0, max=50, step=1).
S0SliderValues == {c * Unit : c \in 0 .. MaxS0}

\* Line 121: E_0 = FloatSlider(min=0.1, max=1, step=0.1); the values explored.
E0SliderValues == {Unit \div 10, Unit \div 2}

\* Line 122: t_f = FloatSlider(min=1, max=50, step=1); the value explored.
TfSliderValues == {Unit}

\* Arguments of direct calls of plot_func outside the sliders' ranges: a zero
\* or negative argument, an empty grid, and a K_M of 0.01 under S_0 = 15.
DirectArguments ==
    { [K_M |-> km, K_cat |-> Unit, S_0 |-> Unit, E_0 |-> e0, t_f |-> tf] :
        km \in {0, Unit}, e0 \in {-(Unit \div 10), 0, Unit \div 10}, tf \in {0, Unit} }
    \cup { [K_M |-> 1, K_cat |-> Unit, S_0 |-> 15 * Unit, E_0 |-> Unit \div 10, t_f |-> Unit] }

EmptyLines == [P |-> <<>>, S |-> <<>>, E |-> <<>>, ES |-> <<>>, v |-> <<>>]

\* Lines 91-99 and 102-103: the call binds its locals and builds the grid.
Invoke(ar, who) ==
    /\ kpc \in {"idle", "done", "raised"}
    /\ bound = DOMAIN Unbound
    /\ kpc' = "plotP"
    /\ via' = who
    /\ earlier' = (kpc # "idle")
    /\ args' = ar
    /\ v_max' = IMul(ar.K_cat, ar.E_0)
    /\ T' = Arange(Fx(g.t_0), ar.t_f, Fx(g.dt))
    /\ series' = EmptyLines
    /\ plotted' = EmptyLines
    /\ kerr' = "none"
    /\ g' = GlobalsAfterCall(g, ar)
    /\ UNCHANGED <<lit, bound, cellErr, md, rootsVars>>

\* Lines 117-123: a slider event calls plot_func with the sliders' values.
KineticsSliderEvent ==
    \E km \in KMSliderValues, kc \in KcatSliderValues, s0 \in S0SliderValues,
       e0 \in E0SliderValues, tf \in TfSliderValues :
        Invoke([K_M |-> km, K_cat |-> kc, S_0 |-> s0, E_0 |-> e0, t_f |-> tf], "slider")

\* plot_func called directly.
KineticsDirectCall == \E ar \in DirectArguments : Invoke(ar, "direct")

\* The end of a plot statement: the exception leaves plot_func, or the line
\* is drawn and the next statement is reached.
PlotLine(raises, what, name, vals, ydata, next) ==
    /\ IF raises
       THEN /\ kpc' = "raised"
            /\ kerr' = what
            /\ UNCHANGED <<series, plotted>>
       ELSE /\ kpc' = next
            /\ series' = [series EXCEPT ![name] = vals]
            /\ plotted' = [plotted EXCEPT ![name] = ydata]
            /\ UNCHANGED kerr
    /\ UNCHANGED <<via, earlier, args, v_max, T, deriveVars, rootsVars>>

\* Line 104: plt.plot(T, [P(t, S, ES) for t in T], label='P').
PlotP ==
    /\ kpc = "plotP"
    /\ LET raises == T # <<>> /\ SRaises(args.K_M)
           vals == IF raises THEN <<>>
                   ELSE [i \in 1 .. Len(T) |->
                           PLambda(args.K_M, args.S_0, args.E_0, v_max, Fx(g.k_1), T[i])]
       IN  PlotLine(raises, "ZeroDivisionError", "P", vals, vals, "plotS")

\* Line 105: plt.plot(T, [S(t) for t in T], label='S').
PlotS ==
    /\ kpc = "plotS"
    /\ LET raises == T # <<>> /\ SRaises(args.K_M)
           vals == IF raises THEN <<>>
                   ELSE [i \in 1 .. Len(T) |-> SLambda(args.K_M, args.S_0, v_max, T[i])]
       IN  PlotLine(raises, "ZeroDivisionError", "S", vals, vals, "plotE")

\* Line 106: plt.plot(T, [10/E_0 * E(t, ES) for t in T], label='E').
PlotE ==
    /\ kpc = "plotE"
    /\ LET raises == T # <<>> /\ (ScaleRaises(args.E_0) \/ SRaises(args.K_M))
           vals == IF raises THEN <<>>
                   ELSE [i \in 1 .. Len(T) |->
                           ELambda(args.K_M, args.S_0, args.E_0, v_max, Fx(g.k_1), T[i])]
           ydata == IF raises THEN <<>>
                    ELSE [i \in 1 .. Len(T) |->
                            NpMul(Fin(IDiv(10 * Unit, args.E_0)), vals[i])]
       IN  PlotLine(raises, "ZeroDivisionError", "E", vals, ydata, "plotES")

\* Line 107: plt.plot(T, [10/E_0 * ES(t, S) for t in T], label='ES').
PlotES ==
    /\ kpc = "plotES"
    /\ LET raises == T # <<>> /\ (ScaleRaises(args.E_0) \/ SRaises(args.K_M))
           vals == IF raises THEN <<>>
                   ELSE [i \in 1 .. Len(T) |->
                           ESLambda(args.K_M, args.S_0, args.E_0, v_max, Fx(g.k_1), T[i])]
           ydata == IF raises THEN <<>>
                    ELSE [i \in 1 .. Len(T) |->
                            NpMul(Fin(IDiv(10 * Unit, args.E_0)), vals[i])]
       IN  PlotLine(raises, "ZeroDivisionError", "ES", vals, ydata, "plotV")

\* Lines 108-115: the second subplot,
\* plt.plot(T, [100 * v(t, S) / v_max for t in T]); then plot_func returns.
PlotV ==
    /\ kpc = "plotV"
    /\ LET raises == T # <<>> /\ SRaises(args.K_M)
           vals == IF raises THEN <<>>
                   ELSE [i \in 1 .. Len(T) |-> vLambda(args.K_M, args.S_0, v_max, T[i])]
           ydata == IF raises THEN <<>>
                    ELSE [i \in 1 .. Len(T) |->
                            NpDiv(NpMul(Fin(100 * Unit), vals[i]), Fin(v_max))]
       IN  PlotLine(raises, "ZeroDivisionError", "v", vals, ydata, "done")

\* The kernel after the constants cell ran on the shipped literals.
InitMM ==
    /\ InitRootsFrame
    /\ InitFrame
    /\ lit = ShippedLiterals
    /\ g = ModuleConstants(ShippedLiterals)
    /\ bound = DOMAIN Unbound
    /\ cellErr = "none"
    /\ md = Unrendered

NextMM ==
    \/ KineticsSliderEvent
    \/ KineticsDirectCall
    \/ PlotP
    \/ PlotS
    \/ PlotE
    \/ PlotES
    \/ PlotV

SpecMM == InitMM /\ [][NextMM]_vars

-----------------------------------------------------------------------------
(* The specification of the cyclotomic notebook. *)

InitRoots ==
    /\ InitRootsFrame
    /\ InitFrame
    /\ lit = ShippedLiterals
    /\ g = Unbound
    /\ bound = {}
    /\ cellErr = "none"
    /\ md = Unrendered

NextRoots ==
    \/ SliderEvent
    \/ DirectCall
    \/ Solve
    \/ LoopStep
    \/ PlotClosing
    \/ EdgeStep

SpecRoots == InitRoots /\ [][NextRoots]_vars

-----------------------------------------------------------------------------
(* Properties of the cyclotomic notebook. *)

AfterLoop == pc \in {"plot", "edges", "done", "raised"}

Returned == pc \in {"done", "raised"}

\* Whether pt is the value fn(2*pi*j/nn).
IsRootCoordinate(pt, fn, j, nn) ==
    /\ pt.f = fn
    /\ pt.turn.den > 0
    /\ pt.turn.num * nn = j * pt.turn.den

\* C1: for every n >= 1 the roots loop yields exactly n points, and the point
\* at 0-based position j is the one computed for the angle 2*pi*j/n: while the
\* loop runs, the points appended so far are those of k = 0 .. k-1, in order.
C1_RootsInOrder ==
    (n >= 1 /\ pc \in {"loop", "plot", "edges", "done", "raised"}) =>
        /\ Len(real) = k /\ Len(imag) = k
        /\ k <= n
        /\ AfterLoop => k = n
        /\ \A j \in 0 .. (k - 1) :
              /\ IsRootCoordinate(real[j + 1], "cos", j, n)
              /\ IsRootCoordinate(imag[j + 1], "sin", j, n)

\* C1's case: plot_funct(5) has returned, and point 1 is the root at 1/5 turn.
C1_Witness ==
    /\ pc = "done" /\ n = 5 /\ Len(real) = 5
    /\ real[2].turn = [num |-> 1, den |-> 5]
    /\ real[5].turn = [num |-> 4, den |-> 5]

\* C2 as amended: for every n <= 0, plot_funct computes no point and leaves
\* with an IndexError (the closing segment indexes the empty lists); it
\* returns no root set.
C2_NonPositiveRaisesIndexError ==
    /\ (n <= 0 /\ AfterLoop) => (real = <<>> /\ imag = <<>>)
    /\ (n <= 0 /\ Returned) =>
          (pc = "raised" /\ err = "IndexError" /\ ~roots.returned /\ segs = <<>>)

\* C2's case: plot_funct(-3) and plot_funct(0) have failed.
C2_Witness == pc = "raised" /\ n = -3 /\ err = "IndexError"

\* C2 as stated: for every n <= 0 the computation fails with InvalidArgument.
C2_Original ==
    (n <= 0 /\ Returned) => (pc = "raised" /\ err = "InvalidArgument")

\* Whether points a and b are neighbours on the inscribed nn-gon.
AdjacentOnPolygon(a, b, nn) == b = (a + 1) % nn \/ a = (b + 1) % nn

\* C10: for every n >= 1 plot_funct draws exactly n segments: first the
\* closing segment between point 0 and point n-1, then for p = 0 .. n-2 the
\* segment between p and p+1; no index leaves 0 .. n-1 (no IndexError), each
\* segment joins two neighbours of the polygon, and its end points are the
\* coordinates of those two points.
C10_SegmentsInOrder ==
    /\ (n >= 1 /\ Returned) => pc = "done"
    /\ (n >= 1 /\ pc = "edges") =>
          /\ Len(segs) = p + 1
          /\ p <= n - 1
    /\ (n >= 1 /\ pc \in {"edges", "done"}) =>
          /\ segs[1].p1 = 0 /\ segs[1].p2 = n - 1
          /\ \A j \in 2 .. Len(segs) : segs[j].p1 = j - 2 /\ segs[j].p2 = j - 1
          /\ \A j \in 1 .. Len(segs) :
                /\ segs[j].p1 \in 0 .. (n - 1)
                /\ segs[j].p2 \in 0 .. (n - 1)
                /\ AdjacentOnPolygon(segs[j].p1, segs[j].p2, n)
                /\ segs[j].xs = <<real[segs[j].p1 + 1], real[segs[j].p2 + 1]>>
                /\ segs[j].ys = <<imag[segs[j].p1 + 1], imag[segs[j].p2 + 1]>>
    /\ (n >= 1 /\ pc = "done") => Len(segs) = n

\* C10's case: plot_funct(4) has returned, with the closing segment first.
C10_Witness ==
    /\ pc = "done" /\ n = 4 /\ Len(segs) = 4
    /\ segs[1].p1 = 0 /\ segs[1].p2 = 3
    /\ segs[4].p1 = 2 /\ segs[4].p2 = 3

-----------------------------------------------------------------------------
(* Properties of the constants cell and the markdown cell. *)

CellRan == bound = DOMAIN Unbound /\ cellErr = "none"

\* C4 as stated: the rendered validity ratio is E_0 / (K_M + S_0), rounded to
\* three places like the cell's own round(..., 3).
C4_RatioUsesS0 ==
    (CellRan /\ md.rendered /\ ~RIsZero(RAdd(g.K_M, g.S_0))) =>
        md.ratioErr = "none" /\ md.ratio = PyRound(RDiv(g.E_0, RAdd(g.K_M, g.S_0)), 1000)

\* C8: whenever k_1 > 0 the constants cell binds K_M = (k_minus_1 + K_cat)/k_1
\* and v_max = K_cat * E_0; for the shipped literals (k_1 = 5.5, k_minus_1 =
\* 0.01, K_cat = 30, E_0 = 0.5) that is K_M = 3001/550, which is 5.4564 to
\* four places, and v_max = 15.
C8_DerivedParameters ==
    /\ (bound # {} /\ lit.k_1.num > 0) =>
          /\ CellRan
          /\ g.K_M.den > 0 /\ g.v_max.den > 0
          /\ g.K_M.num * lit.k_1.num * lit.k_minus_1.den * lit.K_cat.den
               = g.K_M.den * lit.k_1.den
                   * (lit.k_minus_1.num * lit.K_cat.den + lit.K_cat.num * lit.k_minus_1.den)
          /\ g.v_max.num * lit.K_cat.den * lit.E_0.den
               = g.v_max.den * lit.K_cat.num * lit.E_0.num
    /\ (bound # {} /\ lit = ShippedLiterals) =>
          /\ g.K_M = [num |-> 3001, den |-> 550]
          /\ PyRound(g.K_M, 10000) = 54564
          /\ g.v_max = [num |-> 15, den |-> 1]

\* C8's case: the cell has run on the shipped literals.
C8_Witness == CellRan /\ lit = ShippedLiterals /\ g.v_max.num = 15

-----------------------------------------------------------------------------
(* Properties of the kinetics callback. *)

\* A valid parameter set: K_M > 0, S_0 >= 0, E_0 >= 0 and v_max >= 0.
ValidArgs == args.K_M > 0 /\ args.S_0 >= 0 /\ args.E_0 >= 0 /\ args.K_cat >= 0

\* The plot statements whose line has been drawn.
Drawn ==
    CASE kpc = "plotS"  -> {"P"}
      [] kpc = "plotE"  -> {"P", "S"}
      [] kpc = "plotES" -> {"P", "S", "E"}
      [] kpc = "plotV"  -> {"P", "S", "E", "ES"}
      [] kpc = "done"   -> {"P", "S", "E", "ES", "v"}
      [] OTHER          -> {}

\* C3 as stated: for every valid parameter set and every sample of the grid,
\* the values the E and ES lambdas returned add up to the E_0 of the call.
C3_Conservation ==
    (ValidArgs /\ {"E", "ES"} \subseteq Drawn) =>
        \A i \in 1 .. Len(T) :
            NpEq(NpAdd(series.E[i], series.ES[i]), Fin(args.E_0))

\* C5 as amended: plot_func checks none of its arguments and never fails with
\* InvalidArgument.  The sliders keep K_M >= 0.1, K_cat >= 0, S_0 >= 0,
\* E_0 >= 0.1 and t_f >= 1, and a slider call never fails; the grid is always
\* strictly increasing and non-negative; a call fails only with
\* ZeroDivisionError, on a non-empty grid with K_M = 0 or E_0 = 0; every other
\* call, a negative E_0 included, runs to its end.
C5_NoValidation ==
    /\ via = "slider" =>
          /\ args.K_M >= Unit \div 10 /\ args.K_cat >= 0 /\ args.S_0 >= 0
          /\ args.E_0 >= Unit \div 10 /\ args.t_f >= Unit
          /\ kpc # "raised"
    /\ \A i \in 1 .. Len(T) : T[i] >= 0 /\ (i < Len(T) => T[i] < T[i + 1])
    /\ kerr \in {"none", "ZeroDivisionError"}
    /\ kpc = "raised" <=> kerr = "ZeroDivisionError"
    /\ kpc = "raised" => (T # <<>> /\ (args.K_M = 0 \/ args.E_0 = 0))
    /\ (kpc \in {"plotS", "plotE"} /\ T # <<>>) => args.K_M # 0
    /\ (kpc \in {"plotES", "plotV", "done"} /\ T # <<>>) => (args.K_M # 0 /\ args.E_0 # 0)

\* C5's case: a direct call with a negative E_0 has drawn a whole trajectory.
C5_Witness ==
    /\ kpc = "done" /\ via = "direct" /\ args.E_0 < 0
    /\ Len(series.S) = Unit /\ Len(series.E) = Unit

\* C5 as stated: the evaluation fails with InvalidArgument, and draws no
\* trajectory, whenever K_M <= 0 or S_0 < 0 or E_0 < 0.
C5_Original ==
    ((args.K_M <= 0 \/ args.S_0 < 0 \/ args.E_0 < 0) /\ kpc \in {"done", "raised"}) =>
        (kpc = "raised" /\ kerr = "InvalidArgument")

\* C6: for every valid parameter set the substrate line never increases
\* along the grid: S(t_{i+1}) <= S(t_i) for consecutive samples.
C6_SubstrateNonIncreasing ==
    (ValidArgs /\ "S" \in Drawn) =>
        /\ Len(series.S) = Len(T)
        /\ \A i \in 1 .. (Len(T) - 1) : T[i] < T[i + 1] /\ NpLe(series.S[i + 1], series.S[i])

\* C6's case: a slider call whose substrate has been consumed along the grid.
C6_Witness ==
    /\ kpc = "done" /\ via = "slider" /\ ValidArgs /\ v_max > 0
    /\ series.S[1].k = "fin" /\ series.S[Len(T)].k = "fin"
    /\ series.S[Len(T)].v < series.S[1].v

\* C7 as stated: for every valid parameter set the substrate computed at
\* t = 0, the first sample, equals S_0.
C7_InitialCondition ==
    (ValidArgs /\ "S" \in Drawn /\ T # <<>>) =>
        T[1] = 0 /\ NpEq(series.S[1], Fin(args.S_0))

\* The module namespace the first call finds.
FreshNamespace == ModuleConstants(ShippedLiterals)

\* The line a first call with the arguments ar draws for the lambda nm.
FirstCallLine(nm, ar) ==
    LET vm == IMul(ar.K_cat, ar.E_0)
        k1 == Fx(FreshNamespace.k_1)
        TT == Arange(Fx(FreshNamespace.t_0), ar.t_f, Fx(FreshNamespace.dt))
    IN  [i \in 1 .. Len(TT) |->
            CASE nm = "P"  -> PLambda(ar.K_M, ar.S_0, ar.E_0, vm, k1, TT[i])
              [] nm = "S"  -> SLambda(ar.K_M, ar.S_0, vm, TT[i])
              [] nm = "E"  -> ELambda(ar.K_M, ar.S_0, ar.E_0, vm, k1, TT[i])
              [] nm = "ES" -> ESLambda(ar.K_M, ar.S_0, ar.E_0, vm, k1, TT[i])
              [] nm = "v"  -> vLambda(ar.K_M, ar.S_0, vm, TT[i])]

\* The line drawn last.
LastDrawn ==
    CASE kpc = "plotS"  -> "P"
      [] kpc = "plotE"  -> "S"
      [] kpc = "plotES" -> "E"
      [] kpc = "plotV"  -> "ES"
      [] kpc = "done"   -> "v"

\* C9: the callback is stateless.  After any sequence of earlier calls the
\* module namespace is the one the first call found, the grid and every line
\* drawn are those a first call with the same arguments computes, and the
\* lines of an earlier call are gone.
C9_Stateless ==
    /\ g = FreshNamespace
    /\ kpc # "idle" =>
          /\ T = Arange(Fx(FreshNamespace.t_0), args.t_f, Fx(FreshNamespace.dt))
          /\ v_max = IMul(args.K_cat, args.E_0)
          /\ kpc # "raised" =>
                \A nm \in DOMAIN series : nm \notin Drawn => series[nm] = <<>>
    /\ Drawn # {} => series[LastDrawn] = FirstCallLine(LastDrawn, args)

\* C9's case: a slider call that follows an earlier call has returned.
C9_Witness ==
    /\ kpc = "done" /\ via = "slider" /\ earlier
    /\ Len(series.v) = Unit
    /\ args.K_M = 2 * Unit /\ args.S_0 = 2 * Unit

=============================================================================
